---- MODULE Spec2Model ----
(***************************************************************************)
(* A model of go-zerokit-rln (package rln): the Go wrapper around the RLN  *)
(* prover/verifier and its Merkle membership tree.                         *)
(*                                                                         *)
(* Two granularities are used.                                             *)
(*  - The protocol part (tree, proofs, recovery) works on 32-byte WORDS.   *)
(*    A word is a sequence of integers: <<k>> is the little-endian         *)
(*    encoding of the small number k, and a Poseidon digest is the tag     *)
(*    <<-n>> followed by its n input words (a prefix code, so the digest   *)
(*    is an injective function of its inputs: an ideal hash).  A blob      *)
(*    handed to the oracle is a sequence of words; an 8-byte count or      *)
(*    length is the word <<k>>.                                            *)
(*  - The codec part works on BYTES (numbers 0..255) with the real sizes.  *)
(*                                                                         *)
(* The oracle (package link and the zerokit library behind it) is not part *)
(* of the wrapper's source; it is modelled from the specification.         *)
(***************************************************************************)
EXTENDS Integers, Sequences, FiniteSets, TLC

VARIABLES
    leaves,     \* the oracle's tree: leaves[i+1] is the word in slot i
    nextIndex,  \* the oracle's LeavesSet: one past the highest slot ever set
    last,       \* the last call of the wrapper: its name, arguments and result
    undo,       \* history: the root and leaf before the last insert, kept over
                \* the DeleteMember of the same slot that directly follows it
    proofs      \* the proofs a caller holds, each with the call that made it

vars == <<leaves, nextIndex, last, undo, proofs>>

(***************************************************************************)
(* Bounds of the model.                                                    *)
(***************************************************************************)
MaxTreeDepth == 2
BatchTreeDepth == 1      \* batches are tried on trees up to this depth
NumCreds == 2
MaxLimit == 2
MaxBatch == 2
MaxMsgByte == 1
MaxMsgLen == 1
NumEpochs == 2
MaxRoots == 2
ProofTreeDepth == 1
MaxPath == 2
MaxStride == 3
MaxParams == 3

\* A tree of depth d has 2^d slots; the depth is that of the instance's making
\* until SetTree gives the instance a tree of another depth.
Capacity(lv) == Len(lv)
TreeDepth(lv) == CHOOSE d \in 0 .. Len(lv) : 2 ^ d = Len(lv)
\* The slots and the first out-of-range index.
Indices(lv) == 0 .. Capacity(lv)

(***************************************************************************)
(* Words.                                                                  *)
(***************************************************************************)
Atom(k) == <<k>>
ZeroWord == Atom(0)

RECURSIVE ConcatWords(_)
ConcatWords(ws) ==
    IF ws = <<>> THEN <<>> ELSE Head(ws) \o ConcatWords(Tail(ws))

\* The oracle's Poseidon over a list of field elements.
PoseidonFr(ws) == <<0 - Len(ws)>> \o ConcatWords(ws)

Max(a, b) == IF a >= b THEN a ELSE b

RECURSIVE SeqsUpTo(_, _)
SeqsUpTo(S, n) ==
    IF n = 0 THEN {<<>>}
    ELSE LET shorter == SeqsUpTo(S, n - 1)
         IN  shorter \cup {Append(q, x) : q \in {r \in shorter : Len(r) = n - 1}, x \in S}

(***************************************************************************)
(* Identity credentials (types.go IdentityCredential).  The secret of      *)
(* credential k is the word <<k>>; the commitment is the one-way hash of   *)
(* the secret.                                                             *)
(***************************************************************************)
CredIds == 1 .. NumCreds
IDSecretHashOf(k) == Atom(k)
IDCommitmentOf(k) == PoseidonFr(<<IDSecretHashOf(k)>>)
UserMessageLimitOf(k) == MaxLimit - ((k - 1) % MaxLimit)
CredOfCommitment(c) == CHOOSE k \in CredIds : IDCommitmentOf(k) = c
Commitments == {IDCommitmentOf(k) : k \in CredIds}
Limits == 1 .. MaxLimit

(***************************************************************************)
(* The oracle's tree (link.RLNWrapper over zerokit), from the              *)
(* specification, sections 4.2 and 6.                                      *)
(***************************************************************************)
EmptyLeaves(d) == [i \in 1 .. 2 ^ d |-> ZeroWord]

RECURSIVE TreeNode(_, _, _)
TreeNode(lv, level, i) ==
    IF level = 0 THEN lv[i + 1]
    ELSE PoseidonFr(<<TreeNode(lv, level - 1, 2 * i), TreeNode(lv, level - 1, 2 * i + 1)>>)

OracleGetRoot(lv) == TreeNode(lv, TreeDepth(lv), 0)

SetRange(lv, index, ws) ==
    [i \in 1 .. Capacity(lv) |->
        IF i - 1 >= index /\ i - 1 < index + Len(ws) THEN ws[i - index] ELSE lv[i]]

ZeroAt(lv, S) == [i \in 1 .. Capacity(lv) |-> IF i - 1 \in S THEN ZeroWord ELSE lv[i]]

\* A count-prefixed list of words, as the oracle reads it.
BlobWellFormed(blob) == Len(blob) >= 1 /\ Len(blob[1]) = 1 /\ Len(blob) = 1 + blob[1][1]
BlobItems(blob) == SubSeq(blob, 2, Len(blob))

TreeResult(ok, lv, ni) == [ok |-> ok, leaves |-> lv, nextIndex |-> ni]

OracleSetLeaf(lv, ni, index, leaf) ==
    IF index < Capacity(lv)
    THEN TreeResult(TRUE, SetRange(lv, index, <<leaf>>), Max(ni, index + 1))
    ELSE TreeResult(FALSE, lv, ni)

OracleSetNextLeaf(lv, ni, leaf) ==
    IF ni < Capacity(lv)
    THEN TreeResult(TRUE, SetRange(lv, ni, <<leaf>>), ni + 1)
    ELSE TreeResult(FALSE, lv, ni)

OracleDeleteLeaf(lv, ni, index) ==
    IF index < Capacity(lv)
    THEN TreeResult(TRUE, ZeroAt(lv, {index}), ni)
    ELSE TreeResult(FALSE, lv, ni)

\* All insertions from index and all deletions, or nothing.  A slot named by
\* both ends up holding the inserted leaf.
OracleAtomicOperation(lv, ni, index, commBlob, idxBlob) ==
    IF ~(BlobWellFormed(commBlob) /\ BlobWellFormed(idxBlob))
    THEN TreeResult(FALSE, lv, ni)
    ELSE LET ws == BlobItems(commBlob)
             rs == {BlobItems(idxBlob)[j][1] : j \in 1 .. Len(BlobItems(idxBlob))}
         IN  IF index + Len(ws) > Capacity(lv) \/ \E r \in rs : r >= Capacity(lv)
             THEN TreeResult(FALSE, lv, ni)
             ELSE TreeResult(TRUE, SetRange(ZeroAt(lv, rs), index, ws),
                             IF Len(ws) = 0 THEN ni ELSE Max(ni, index + Len(ws)))

\* A fresh tree holding the given leaves from slot 0.
OracleInitTreeWithLeaves(lv, ni, commBlob) ==
    IF ~BlobWellFormed(commBlob) \/ Len(BlobItems(commBlob)) > Capacity(lv)
    THEN TreeResult(FALSE, lv, ni)
    ELSE TreeResult(TRUE, SetRange(EmptyLeaves(TreeDepth(lv)), 0, BlobItems(commBlob)),
                    Len(BlobItems(commBlob)))

\* setTree(height): the tree is replaced by an empty tree of the height, or the
\* oracle refuses and the tree is kept.
OracleSetTree(lv, ni, treeHeight) ==
    {TreeResult(TRUE, EmptyLeaves(treeHeight), 0), TreeResult(FALSE, lv, ni)}

OracleGetLeaf(lv, index) ==
    IF index < Capacity(lv) THEN [err |-> "", out |-> <<lv[index + 1]>>]
    ELSE [err |-> "index out of range", out |-> <<>>]

\* poseidonHash(countPrefixedConcatenatedInputs) -> 32B
OraclePoseidonHash(blob) ==
    IF BlobWellFormed(blob) THEN [err |-> "", out |-> <<PoseidonFr(BlobItems(blob))>>]
    ELSE [err |-> "invalid input", out |-> <<>>]

OracleGetRootBytes(lv) == [err |-> "", out |-> <<OracleGetRoot(lv)>>]

(***************************************************************************)
(* The oracle's prover, verifier and secret recovery, from the             *)
(* specification, sections 4.4, 4.5 and 6.  Shares are points of a line    *)
(* over the prime field of FieldPrime elements: y = s + a1 * x.            *)
(***************************************************************************)
FieldPrime == 251

RECURSIVE FieldFold(_, _)
FieldFold(w, acc) ==
    IF w = <<>> THEN acc
    ELSE FieldFold(Tail(w), (acc * 7 + Head(w) + 64) % FieldPrime)

\* A word as a field element.
FieldOf(w) == FieldFold(w, 1)

FieldInv(a) == CHOOSE b \in 1 .. FieldPrime - 1 : (a * b) % FieldPrime = 1
FieldSub(a, b) == (a + FieldPrime - b) % FieldPrime

\* The signal as a number: its bytes (1 .. MaxMsgByte) as the digits of a
\* numeral in base MaxMsgByte + 1.
RECURSIVE SignalCode(_)
SignalCode(msg) ==
    IF msg = <<>> THEN 0 ELSE msg[1][1] + (MaxMsgByte + 1) * SignalCode(Tail(msg))

\* The evaluation point, derived from the message content and the messageId;
\* distinct for distinct (message, messageId) of the model.
ShareXOf(msg, messageId) ==
    (1 + messageId + (MaxLimit + 2) * SignalCode(msg)) % FieldPrime

A1Word(secret, externalNullifier) == PoseidonFr(<<secret, externalNullifier>>)
ShareYOf(secret, externalNullifier, x) ==
    (secret[1] + FieldOf(A1Word(secret, externalNullifier)) * x) % FieldPrime
NullifierOf(secret, externalNullifier) ==
    PoseidonFr(<<A1Word(secret, externalNullifier)>>)

\* The membership path of a slot: the sibling at each level, leaf side first, and
\* the direction bits (0: the sibling is on the left).
RECURSIVE PathElementsFrom(_, _, _)
PathElementsFrom(lv, level, i) ==
    IF level = TreeDepth(lv) THEN <<>>
    ELSE <<TreeNode(lv, level, IF i % 2 = 0 THEN i + 1 ELSE i - 1)>>
            \o PathElementsFrom(lv, level + 1, i \div 2)

RECURSIVE PathIndexesFrom(_, _, _)
PathIndexesFrom(lv, level, i) ==
    IF level = TreeDepth(lv) THEN <<>>
    ELSE <<IF i % 2 = 0 THEN 1 ELSE 0>> \o PathIndexesFrom(lv, level + 1, i \div 2)

RECURSIVE FoldPath(_, _, _)
FoldPath(node, elements, indexes) ==
    IF elements = <<>> THEN node
    ELSE FoldPath(IF Head(indexes) = 1 THEN PoseidonFr(<<node, Head(elements)>>)
                  ELSE PoseidonFr(<<Head(elements), node>>),
                  Tail(elements), Tail(indexes))

RateCommitmentOf(secret, limit) ==
    PoseidonFr(<<PoseidonFr(<<secret>>), Atom(limit)>>)

\* The succinct proof (128 bytes: four words) of a public statement.
ProofWords(att) == <<att, Atom(1), Atom(2), Atom(3)>>
Attest(root, externalNullifier, x, y, nullifier, signal) ==
    PoseidonFr(<<root, externalNullifier, x, y, nullifier, PoseidonFr(signal)>>)

WitnessWellFormed(input) ==
    /\ Len(input) >= 6
    /\ \A j \in {2, 3, 4, 6} : Len(input[j]) = 1
    /\ Len(input) = 6 + input[6][1]

ProofOutput(lv, input, sound) ==
    LET secret == input[1]
        index == input[2][1]
        limit == input[3][1]
        messageId == input[4][1]
        externalNullifier == input[5]
        signal == SubSeq(input, 7, Len(input))
        root == FoldPath(RateCommitmentOf(secret, limit),
                         PathElementsFrom(lv, 0, index), PathIndexesFrom(lv, 0, index))
        x == Atom(ShareXOf(signal, messageId))
        y == Atom(ShareYOf(secret, externalNullifier, x[1]))
        nullifier == NullifierOf(secret, externalNullifier)
    IN  ProofWords(IF sound THEN Attest(root, externalNullifier, x, y, nullifier, signal)
                   ELSE ZeroWord)
            \o <<root, externalNullifier, x, y, nullifier>>

\* proveRLN(serializedWitness) -> 288B proof | error: the outcomes it may have.
\* A witness beyond its limit is refused; one exactly at its limit is refused
\* or given a well-formed proof that proves nothing.
OracleGenerateRLNProof(lv, input) ==
    IF ~WitnessWellFormed(input) THEN {[err |-> "invalid witness", out |-> <<>>]}
    ELSE IF input[2][1] >= Capacity(lv) THEN {[err |-> "index out of range", out |-> <<>>]}
    ELSE IF input[4][1] > input[3][1]
    THEN {[err |-> "message id out of range", out |-> <<>>]}
    ELSE IF input[4][1] = input[3][1]
    THEN {[err |-> "message id out of range", out |-> <<>>],
          [err |-> "", out |-> ProofOutput(lv, input, FALSE)]}
    ELSE {[err |-> "", out |-> ProofOutput(lv, input, TRUE)]}

\* verifyRLN(serializedProof, serializedRootsWindow) -> bool | error
OracleVerifyWithRoots(proofBlob, rootBlob) ==
    IF \/ Len(proofBlob) < 10
       \/ Len(proofBlob[10]) # 1
       \/ Len(proofBlob) # 10 + proofBlob[10][1]
    THEN [err |-> "invalid proof", ok |-> FALSE]
    ELSE LET signal == SubSeq(proofBlob, 11, Len(proofBlob))
             att == Attest(proofBlob[5], proofBlob[6], proofBlob[7], proofBlob[8],
                           proofBlob[9], signal)
         IN  [err |-> "",
              ok |-> /\ SubSeq(proofBlob, 1, 4) = ProofWords(att)
                     /\ \/ rootBlob = <<>>
                        \/ \E j \in 1 .. Len(rootBlob) : rootBlob[j] = proofBlob[5]]

\* Two shares of one line give the secret; anything else gives no error and
\* an undefined value.
OracleRecoverIDSecret(blob1, blob2) ==
    IF Len(blob1) # 9 \/ Len(blob2) # 9
    THEN {[err |-> "invalid proof", out |-> <<>>]}
    ELSE IF blob1[6] = blob2[6] /\ blob1[7] # blob2[7]
            /\ \A b \in {blob1, blob2} : Len(b[7]) = 1 /\ Len(b[8]) = 1
    THEN LET x1 == blob1[7][1]
             y1 == blob1[8][1]
             x2 == blob2[7][1]
             y2 == blob2[8][1]
             slope == (FieldSub(y1, y2) * FieldInv(FieldSub(x1, x2))) % FieldPrime
         IN  {[err |-> "", out |-> <<Atom(FieldSub(y1, (slope * x1) % FieldPrime))>>]}
    ELSE {[err |-> "", out |-> <<>>], [err |-> "", out |-> <<ZeroWord>>],
          [err |-> "", out |-> <<blob1[8]>>]}

(***************************************************************************)
(* The wrapper (rln.go).  A byte slice is a sequence of words; copy into a *)
(* [32]byte keeps the first word and pads with zeros.                      *)
(***************************************************************************)
CopyWord(b) == IF Len(b) >= 1 THEN b[1] ELSE ZeroWord

SerializeUint32(n) == Atom(n)

RECURSIVE serializeSlice(_)
serializeSlice(roots) ==
    IF roots = <<>> THEN <<>> ELSE <<Head(roots)>> \o serializeSlice(Tail(roots))

RECURSIVE serialize32(_)
serialize32(roots) ==
    IF roots = <<>> THEN <<>> ELSE <<Head(roots)>> \o serialize32(Tail(roots))

serializeCommitments(commitments) ==
    <<Atom(Len(commitments))>> \o commitments

serializeIndices(indices) ==
    <<Atom(Len(indices))>> \o [j \in 1 .. Len(indices) |-> Atom(indices[j])]

Poseidon(input) ==
    LET data == serializeSlice(input)
        lenPrefData == <<Atom(Len(input))>> \o data
        r == OraclePoseidonHash(lenPrefData)
    IN  IF r.err # "" THEN [err |-> r.err, out |-> ZeroWord]
        ELSE [err |-> "", out |-> CopyWord(r.out)]

TreeCall(err, t) == [err |-> err, leaves |-> t.leaves, nextIndex |-> t.nextIndex]

\* Mutant: the leaf is stored without hashing it with the limit.
InsertMemberCallRaw(lv, ni, idComm, userMessageLimit) ==
    LET t == OracleSetNextLeaf(lv, ni, idComm)
    IN  TreeCall(IF t.ok THEN "" ELSE "could not insert member", t)

InsertMemberCall(lv, ni, idComm, userMessageLimit) ==
    LET hashedLeaf == Poseidon(<<idComm, SerializeUint32(userMessageLimit)>>)
        t == OracleSetNextLeaf(lv, ni, hashedLeaf.out)
    IN  IF hashedLeaf.err # "" THEN TreeCall(hashedLeaf.err, TreeResult(FALSE, lv, ni))
        ELSE TreeCall(IF t.ok THEN "" ELSE "could not insert member", t)

InsertMembersCall(lv, ni, index, idComms) ==
    LET t == OracleAtomicOperation(lv, ni, index, serializeCommitments(idComms),
                                   serializeIndices(<<>>))
    IN  TreeCall(IF t.ok THEN "" ELSE "could not insert members", t)

InsertMemberAtCall(lv, ni, index, idComm) ==
    LET t == OracleSetLeaf(lv, ni, index, idComm)
    IN  TreeCall(IF t.ok THEN "" ELSE "could not insert member", t)

\* Mutant: the slot after the one asked for is deleted.
DeleteMemberCallOffByOne(lv, ni, index) ==
    LET t == OracleDeleteLeaf(lv, ni, index + 1)
    IN  TreeCall(IF t.ok THEN "" ELSE "could not delete member", t)

DeleteMemberCall(lv, ni, index) ==
    LET t == OracleDeleteLeaf(lv, ni, index)
    IN  TreeCall(IF t.ok THEN "" ELSE "could not delete member", t)

DeleteMembersCall(lv, ni, indices) ==
    LET t == OracleAtomicOperation(lv, ni, 0, serializeCommitments(<<>>),
                                   serializeIndices(indices))
    IN  TreeCall(IF t.ok THEN "" ELSE "could not insert members", t)

\* Mutant: the oracle's failure is not reported.
AtomicOperationCallSwallow(lv, ni, index, idCommsToInsert, indicesToRemove) ==
    LET t == OracleAtomicOperation(lv, ni, index, serializeCommitments(idCommsToInsert),
                                   serializeIndices(indicesToRemove))
    IN  TreeCall("", t)

AtomicOperationCall(lv, ni, index, idCommsToInsert, indicesToRemove) ==
    LET t == OracleAtomicOperation(lv, ni, index, serializeCommitments(idCommsToInsert),
                                   serializeIndices(indicesToRemove))
    IN  TreeCall(IF t.ok THEN "" ELSE "could not execute atomic_operation", t)

\* The outcomes of SetTree, one for each answer of the oracle.
SetTreeCall(lv, ni, treeHeight) ==
    {TreeCall(IF success.ok THEN "" ELSE "could not set tree height", success) :
        success \in OracleSetTree(lv, ni, treeHeight)}

InitTreeWithMembersCall(lv, ni, idComms) ==
    LET t == OracleInitTreeWithLeaves(lv, ni, serializeCommitments(idComms))
    IN  TreeCall(IF t.ok THEN "" ELSE "could not init tree", t)

GetMerkleRoot(lv) ==
    LET r == OracleGetRootBytes(lv)
    IN  IF r.err # "" THEN [err |-> r.err, out |-> ZeroWord]
        ELSE IF Len(r.out) # 1 THEN [err |-> "wrong output size", out |-> ZeroWord]
        ELSE [err |-> "", out |-> CopyWord(r.out)]

GetLeaf(lv, index) ==
    LET r == OracleGetLeaf(lv, index)
    IN  IF r.err # "" THEN [err |-> r.err, out |-> ZeroWord]
        ELSE IF Len(r.out) # 1 THEN [err |-> "wrong output size", out |-> ZeroWord]
        ELSE [err |-> "", out |-> CopyWord(r.out)]

LeavesSet(ni) == ni

(***************************************************************************)
(* Proofs (rln.go, serialize.go), over words: a [32]byte is one word, the  *)
(* 128-byte proof is four, a length prefix is one item of a blob and each  *)
(* byte of the message is one item.                                        *)
(***************************************************************************)
WordBytes == 32
RLN_IDENTIFIER ==
    <<166, 140, 43, 8, 8, 22, 206, 113, 151, 128, 118, 40, 119, 197, 218, 174,
      11, 117, 84, 228, 96, 211, 212, 140, 145, 104, 146, 99, 24, 192, 217, 4>>

Cred(k) ==
    [IDSecretHash |-> IDSecretHashOf(k), IDCommitment |-> IDCommitmentOf(k),
     UserMessageLimit |-> UserMessageLimitOf(k)]

appendLengthW(input) == <<Atom(Len(input))>> \o input

\* Mutant: the limit and the messageId change places in the witness.
serializeWSwapped(idKey, memIndex, userMessageLimit, messageId, externalNullifier, msg) ==
    <<idKey, Atom(memIndex), Atom(messageId), Atom(userMessageLimit), externalNullifier>>
        \o appendLengthW(msg)

serializeW(idKey, memIndex, userMessageLimit, messageId, externalNullifier, msg) ==
    <<idKey, Atom(memIndex), Atom(userMessageLimit), Atom(messageId), externalNullifier>>
        \o appendLengthW(msg)

RateLimitProof_serializeW(r) ==
    r.Proof \o <<r.MerkleRoot, r.ExternalNullifier, r.ShareX, r.ShareY, r.Nullifier>>

RateLimitProof_serializeWithDataW(r, data) ==
    RateLimitProof_serializeW(r) \o appendLengthW(data)

NoProof ==
    [Proof |-> <<>>, MerkleRoot |-> ZeroWord, ExternalNullifier |-> ZeroWord,
     ShareX |-> ZeroWord, ShareY |-> ZeroWord, Nullifier |-> ZeroWord]

\* proofBytes[lo:hi], the offsets in bytes.
SliceW(b, lo, hi) == SubSeq(b, lo \div WordBytes + 1, hi \div WordBytes)

\* The part of GenerateProof after the oracle's call.
GenerateProofResult(o, input) ==
    IF o.err # "" THEN [err |-> o.err, proof |-> NoProof, input |-> input]
    ELSE IF Len(o.out) * WordBytes # 288
    THEN [err |-> "invalid proof generated", proof |-> NoProof, input |-> input]
    ELSE LET proofOffset == 128
             rootOffset == proofOffset + 32
             externalNullifierOffset == rootOffset + 32
             shareXOffset == externalNullifierOffset + 32
             shareYOffset == shareXOffset + 32
             nullifierOffset == shareYOffset + 32
         IN  [err |-> "",
              proof |-> [Proof |-> SliceW(o.out, 0, proofOffset),
                         MerkleRoot |-> CopyWord(SliceW(o.out, proofOffset, rootOffset)),
                         ExternalNullifier |->
                             CopyWord(SliceW(o.out, rootOffset, externalNullifierOffset)),
                         ShareX |-> CopyWord(SliceW(o.out, externalNullifierOffset, shareXOffset)),
                         ShareY |-> CopyWord(SliceW(o.out, shareXOffset, shareYOffset)),
                         Nullifier |-> CopyWord(SliceW(o.out, shareYOffset, nullifierOffset))],
              input |-> input]

\* Mutant: a proof is refused unless the slot holds the prover's own leaf.
GenerateProofCallChecked(lv, data, key, index, epoch, messageId) ==
    LET externalNullifierInput == Poseidon(<<epoch, RLN_IDENTIFIER>>)
        input == serializeW(key.IDSecretHash, index, key.UserMessageLimit, messageId,
                            externalNullifierInput.out, data)
    IN  IF \/ index >= Capacity(lv)
           \/ lv[index + 1] # RateCommitmentOf(key.IDSecretHash, key.UserMessageLimit)
        THEN {[err |-> "not a member", proof |-> NoProof, input |-> <<>>]}
        ELSE {GenerateProofResult(o, input) : o \in OracleGenerateRLNProof(lv, input)}

\* The outcomes of GenerateProof; input is what the oracle was called with
\* (empty when it was not called).
GenerateProofCall(lv, data, key, index, epoch, messageId) ==
    LET externalNullifierInput == Poseidon(<<epoch, RLN_IDENTIFIER>>)
        input == serializeW(key.IDSecretHash, index, key.UserMessageLimit, messageId,
                            externalNullifierInput.out, data)
    IN  IF externalNullifierInput.err # ""
        THEN {[err |-> "could not construct the external nullifier", proof |-> NoProof,
               input |-> <<>>]}
        ELSE {GenerateProofResult(o, input) : o \in OracleGenerateRLNProof(lv, input)}

\* Mutant: the roots are not handed to the oracle.
VerifyCallNoRoots(data, proof, roots) ==
    LET r == OracleVerifyWithRoots(RateLimitProof_serializeWithDataW(proof, data), <<>>)
    IN  IF r.err # "" THEN [res |-> FALSE, err |-> r.err] ELSE [res |-> r.ok, err |-> ""]

VerifyCall(data, proof, roots) ==
    LET proofBytes == RateLimitProof_serializeWithDataW(proof, data)
        rootBytes == serialize32(roots)
        r == OracleVerifyWithRoots(proofBytes, rootBytes)
    IN  IF r.err # "" THEN [res |-> FALSE, err |-> r.err] ELSE [res |-> r.ok, err |-> ""]

\* Mutant: the first proof is handed to the oracle twice.
RecoverIDSecretCallTwice(proof1, proof2) ==
    {IF o.err # "" THEN [err |-> o.err, out |-> ZeroWord]
     ELSE [err |-> "", out |-> CopyWord(o.out)] :
        o \in OracleRecoverIDSecret(RateLimitProof_serializeW(proof1),
                                    RateLimitProof_serializeW(proof1))}

RecoverIDSecretCall(proof1, proof2) ==
    LET proof1Bytes == RateLimitProof_serializeW(proof1)
        proof2Bytes == RateLimitProof_serializeW(proof2)
    IN  {IF o.err # "" THEN [err |-> o.err, out |-> ZeroWord]
         ELSE [err |-> "", out |-> CopyWord(o.out)] :
            o \in OracleRecoverIDSecret(proof1Bytes, proof2Bytes)}

(***************************************************************************)
(* The calls as actions.                                                   *)
(***************************************************************************)
\* What is kept of a call: its result and, when it succeeded, its arguments
\* (a failed call leaves nothing of its arguments behind but whether some part of
\* it was applicable: mixed).
Call(op, index, comms, rem, limit, err, out) ==
    [op |-> op, index |-> index, comms |-> comms, rem |-> rem, limit |-> limit,
     err |-> err, out |-> out, mixed |-> FALSE]

Failed(op, err, mixed) ==
    [op |-> op, index |-> 0, comms |-> <<>>, rem |-> <<>>, limit |-> 0,
     err |-> err, out |-> ZeroWord, mixed |-> mixed]

TreeOutcome(op, index, comms, rem, limit, err) ==
    IF err = "" THEN Call(op, index, comms, rem, limit, err, ZeroWord)
    ELSE Failed(op, err,
                \/ \E j \in 1 .. Len(comms) : index + j - 1 < Capacity(leaves)
                \/ \E j \in 1 .. Len(rem) : rem[j] < Capacity(leaves))

NoUndo == [stage |-> "none", index |-> 0, root |-> ZeroWord, leaf |-> ZeroWord]

UndoAfterInsert(index, err) ==
    IF err = ""
    THEN [stage |-> "inserted", index |-> index, root |-> GetMerkleRoot(leaves).out,
          leaf |-> leaves[index + 1]]
    ELSE NoUndo

UndoAfterDelete(index, err) ==
    IF err = "" /\ undo.stage = "inserted" /\ undo.index = index
    THEN [undo EXCEPT !.stage = "deleted"]
    ELSE NoUndo

InsertMember(idComm, userMessageLimit) ==
    LET r == InsertMemberCall(leaves, nextIndex, idComm, userMessageLimit)
    IN  /\ leaves' = r.leaves
        /\ nextIndex' = r.nextIndex
        /\ last' = TreeOutcome("InsertMember", nextIndex, <<idComm>>, <<>>, userMessageLimit, r.err)
        /\ undo' = UndoAfterInsert(nextIndex, r.err)
        /\ UNCHANGED proofs

InsertMembers(index, idComms) ==
    LET r == InsertMembersCall(leaves, nextIndex, index, idComms)
    IN  /\ leaves' = r.leaves
        /\ nextIndex' = r.nextIndex
        /\ last' = TreeOutcome("InsertMembers", index, idComms, <<>>, 0, r.err)
        /\ undo' = NoUndo
        /\ UNCHANGED proofs

InsertMemberAt(index, idComm) ==
    LET r == InsertMemberAtCall(leaves, nextIndex, index, idComm)
    IN  /\ leaves' = r.leaves
        /\ nextIndex' = r.nextIndex
        /\ last' = TreeOutcome("InsertMemberAt", index, <<idComm>>, <<>>, 0, r.err)
        /\ undo' = UndoAfterInsert(index, r.err)
        /\ UNCHANGED proofs

DeleteMember(index) ==
    LET r == DeleteMemberCall(leaves, nextIndex, index)
    IN  /\ leaves' = r.leaves
        /\ nextIndex' = r.nextIndex
        /\ last' = TreeOutcome("DeleteMember", index, <<>>, <<>>, 0, r.err)
        /\ undo' = UndoAfterDelete(index, r.err)
        /\ UNCHANGED proofs

DeleteMembers(indices) ==
    LET r == DeleteMembersCall(leaves, nextIndex, indices)
    IN  /\ leaves' = r.leaves
        /\ nextIndex' = r.nextIndex
        /\ last' = TreeOutcome("DeleteMembers", 0, <<>>, indices, 0, r.err)
        /\ undo' = NoUndo
        /\ UNCHANGED proofs

AtomicOperation(index, idCommsToInsert, indicesToRemove) ==
    LET r == AtomicOperationCall(leaves, nextIndex, index, idCommsToInsert, indicesToRemove)
    IN  /\ leaves' = r.leaves
        /\ nextIndex' = r.nextIndex
        /\ last' = TreeOutcome("AtomicOperation", index, idCommsToInsert, indicesToRemove, 0, r.err)
        /\ undo' = NoUndo
        /\ UNCHANGED proofs

InitTreeWithMembers(idComms) ==
    LET r == InitTreeWithMembersCall(leaves, nextIndex, idComms)
    IN  /\ leaves' = r.leaves
        /\ nextIndex' = r.nextIndex
        /\ last' = TreeOutcome("InitTreeWithMembers", 0, idComms, <<>>, 0, r.err)
        /\ undo' = NoUndo
        /\ UNCHANGED proofs

SetTree(treeHeight) ==
    \E r \in SetTreeCall(leaves, nextIndex, treeHeight) :
        /\ leaves' = r.leaves
        /\ nextIndex' = r.nextIndex
        /\ last' = TreeOutcome("SetTree", treeHeight, <<>>, <<>>, 0, r.err)
        /\ undo' = NoUndo
        /\ UNCHANGED proofs

ReadMerkleRoot ==
    LET r == GetMerkleRoot(leaves)
    IN  /\ last' = Call("GetMerkleRoot", 0, <<>>, <<>>, 0, r.err, r.out)
        /\ undo' = NoUndo
        /\ UNCHANGED <<leaves, nextIndex, proofs>>

ReadLeaf(index) ==
    LET r == GetLeaf(leaves, index)
    IN  /\ last' = Call("GetLeaf", index, <<>>, <<>>, 0, r.err, r.out)
        /\ undo' = NoUndo
        /\ UNCHANGED <<leaves, nextIndex, proofs>>

\* AddAll: the members are inserted one after the other, up to the first that
\* fails.
RECURSIVE AddAllCall(_, _, _)
AddAllCall(lv, ni, list) ==
    IF list = <<>> THEN TreeCall("", TreeResult(TRUE, lv, ni))
    ELSE LET member == Head(list)
             r == InsertMemberCall(lv, ni, member.IDCommitment, member.UserMessageLimit)
         IN  IF r.err # "" THEN r ELSE AddAllCall(r.leaves, r.nextIndex, Tail(list))

AddAll(list) ==
    LET r == AddAllCall(leaves, nextIndex, list)
    IN  /\ leaves' = r.leaves
        /\ nextIndex' = r.nextIndex
        /\ last' = TreeOutcome("AddAll", nextIndex,
                               [j \in 1 .. Len(list) |-> list[j].IDCommitment], <<>>, 0, r.err)
        /\ undo' = NoUndo
        /\ UNCHANGED proofs

ProofSlots == {1, 2}
NoProofs == [s \in ProofSlots |-> [set |-> FALSE]]

\* The leaf a credential's proof is about.
RateCommitment(k) == RateCommitmentOf(IDSecretHashOf(k), UserMessageLimitOf(k))
LeafAt(index) == IF index < Capacity(leaves) THEN leaves[index + 1] ELSE ZeroWord

\* Mutant: the call writes a leaf into the next free slot.
TreeAfterProofCallAppending(lv, ni) == OracleSetNextLeaf(lv, ni, Atom(1))

\* The tree after Sha256, Poseidon, GenerateProof, Verify or RecoverIDSecret: none
\* of them calls a method of the oracle that writes the tree.
TreeAfterProofCall(lv, ni) == TreeResult(TRUE, lv, ni)

\* A proof is kept with the call that made it and the tree it was made on.
GenerateProof(slot, data, k, index, epoch, messageId) ==
    \E o \in GenerateProofCall(leaves, data, Cred(k), index, epoch, messageId) :
        /\ proofs' =
              IF o.err # "" THEN proofs
              ELSE [proofs EXCEPT ![slot] =
                       [set |-> TRUE, proof |-> o.proof, cred |-> k, index |-> index,
                        epoch |-> epoch, messageId |-> messageId, data |-> data,
                        root |-> GetMerkleRoot(leaves).out,
                        member |-> LeafAt(index) = RateCommitment(k),
                        inserted |-> LeafAt(index) \in {IDCommitmentOf(k), RateCommitment(k)}]]
        /\ last' = [op |-> "GenerateProof", err |-> o.err, slot |-> slot,
                    inRange |-> index < Capacity(leaves),
                    member |-> LeafAt(index) = RateCommitment(k),
                    inserted |-> index < Capacity(leaves)
                                 /\ LeafAt(index) \in {IDCommitmentOf(k), RateCommitment(k)},
                    overLimit |-> messageId >= UserMessageLimitOf(k),
                    oracleCalled |-> o.input # <<>>,
                    oracleOverLimit |-> o.input # <<>> /\ o.input[4][1] >= o.input[3][1]]
        /\ undo' = NoUndo
        /\ leaves' = TreeAfterProofCall(leaves, nextIndex).leaves
        /\ nextIndex' = TreeAfterProofCall(leaves, nextIndex).nextIndex

Verify(slot, data, roots) ==
    /\ proofs[slot].set
    /\ LET r == VerifyCall(data, proofs[slot].proof, roots)
       IN  last' = [op |-> "Verify", err |-> r.err, slot |-> slot, res |-> r.res,
                    sameData |-> data = proofs[slot].data,
                    noRoots |-> roots = <<>>,
                    hasRoot |-> \E j \in 1 .. Len(roots) : roots[j] = proofs[slot].root,
                    onlyCurrent |-> roots = <<GetMerkleRoot(leaves).out>>]
    /\ undo' = NoUndo
    /\ leaves' = TreeAfterProofCall(leaves, nextIndex).leaves
    /\ nextIndex' = TreeAfterProofCall(leaves, nextIndex).nextIndex
    /\ UNCHANGED proofs

RecoverIDSecret(slot1, slot2) ==
    /\ proofs[slot1].set
    /\ proofs[slot2].set
    /\ \E o \in RecoverIDSecretCall(proofs[slot1].proof, proofs[slot2].proof) :
          last' = [op |-> "RecoverIDSecret", err |-> o.err, out |-> o.out,
                   first |-> slot1, second |-> slot2]
    /\ undo' = NoUndo
    /\ leaves' = TreeAfterProofCall(leaves, nextIndex).leaves
    /\ nextIndex' = TreeAfterProofCall(leaves, nextIndex).nextIndex
    /\ UNCHANGED proofs

\* hash(lengthPrefixedData) -> 32B
OracleHash(blob) == [err |-> "", out |-> <<<<0 - 255>> \o ConcatWords(blob)>>]

Sha256(data) ==
    LET lenPrefData == <<Atom(Len(data))>> \o data
        r == OracleHash(lenPrefData)
    IN  IF r.err # "" THEN [err |-> r.err, out |-> ZeroWord]
        ELSE [err |-> "", out |-> CopyWord(r.out)]

CallSha256(data) ==
    /\ last' = [op |-> "Sha256", err |-> Sha256(data).err, out |-> Sha256(data).out,
                data |-> data]
    /\ undo' = NoUndo
    /\ leaves' = TreeAfterProofCall(leaves, nextIndex).leaves
    /\ nextIndex' = TreeAfterProofCall(leaves, nextIndex).nextIndex
    /\ UNCHANGED proofs

CallPoseidon(input) ==
    /\ last' = [op |-> "Poseidon", err |-> Poseidon(input).err, out |-> Poseidon(input).out,
                data |-> input]
    /\ undo' = NoUndo
    /\ leaves' = TreeAfterProofCall(leaves, nextIndex).leaves
    /\ nextIndex' = TreeAfterProofCall(leaves, nextIndex).nextIndex
    /\ UNCHANGED proofs

Msgs == SeqsUpTo({Atom(b) : b \in 1 .. MaxMsgByte}, MaxMsgLen)
Epochs == {Atom(e) : e \in 1 .. NumEpochs}
MessageIds == 0 .. MaxLimit + 1

\* The roots a verifier may hold: of the tree as it is, as it was when the
\* proof was made, of the proof itself and of the empty tree.
RootChoices(slot) ==
    IF proofs[slot].set
    THEN {GetMerkleRoot(leaves).out, proofs[slot].root, proofs[slot].proof.MerkleRoot,
          OracleGetRoot(EmptyLeaves(TreeDepth(leaves)))}
    ELSE {}

Slots == 0 .. Capacity(leaves) - 1
CommBatches == SeqsUpTo(Commitments, MaxBatch)
IndexBatches == SeqsUpTo(Indices(leaves), MaxBatch)

\* The heights a tree is made with or set to.
TreeHeights == 1 .. MaxTreeDepth
ProofTreeHeights == 1 .. ProofTreeDepth

Init ==
    /\ \E d \in TreeHeights : leaves = EmptyLeaves(d)
    /\ nextIndex = 0
    /\ last = Call("NewRLN", 0, <<>>, <<>>, 0, "", ZeroWord)
    /\ undo = NoUndo
    /\ proofs = NoProofs

Next ==
    \/ \E k \in CredIds : InsertMember(IDCommitmentOf(k), UserMessageLimitOf(k))
    \/ /\ TreeDepth(leaves) <= BatchTreeDepth
       /\ \E i \in Indices(leaves), cs \in CommBatches : InsertMembers(i, cs)
    \/ \E i \in Indices(leaves), c \in Commitments : InsertMemberAt(i, c)
    \/ \E i \in Indices(leaves) : DeleteMember(i)
    \/ /\ TreeDepth(leaves) <= BatchTreeDepth
       /\ \E is \in IndexBatches : DeleteMembers(is)
    \/ /\ TreeDepth(leaves) <= BatchTreeDepth
       /\ \E i \in Indices(leaves), cs \in CommBatches, is \in IndexBatches :
             AtomicOperation(i, cs, is)
    \/ /\ TreeDepth(leaves) <= BatchTreeDepth
       /\ \E cs \in CommBatches : InitTreeWithMembers(cs)
    \/ \E treeHeight \in TreeHeights : SetTree(treeHeight)

Spec == Init /\ [][Next]_vars

(***************************************************************************)
(* Proofs on a changing tree: one proof is kept while members come and go. *)
(***************************************************************************)
InitProof ==
    /\ leaves = EmptyLeaves(ProofTreeDepth)
    /\ nextIndex = 0
    /\ last = Call("NewRLN", 0, <<>>, <<>>, 0, "", ZeroWord)
    /\ undo = NoUndo
    /\ proofs = NoProofs

\* The prover is a credential of the largest limit; the others are members of
\* the tree.
Prover == CHOOSE k \in CredIds : UserMessageLimitOf(k) = MaxLimit

NextProof ==
    \/ \E k \in CredIds : InsertMember(IDCommitmentOf(k), UserMessageLimitOf(k))
    \/ \E i \in Indices(leaves) : InsertMemberAt(i, IDCommitmentOf(Prover))
    \/ \E i \in Indices(leaves) : DeleteMember(i)
    \/ \E data \in Msgs, i \in Indices(leaves), messageId \in MessageIds :
          GenerateProof(1, data, Prover, i, Atom(1), messageId)
    \/ \E data \in Msgs, roots \in SeqsUpTo(RootChoices(1), MaxRoots) :
          Verify(1, data, roots)
    \/ \E treeHeight \in ProofTreeHeights : SetTree(treeHeight)

SpecProof == InitProof /\ [][NextProof]_vars

(***************************************************************************)
(* Two proofs on a tree that holds every credential, and recovery.         *)
(***************************************************************************)
RECURSIVE InsertAll(_, _, _)
InsertAll(lv, ni, k) ==
    IF k > NumCreds THEN [leaves |-> lv, nextIndex |-> ni]
    ELSE LET r == InsertMemberCall(lv, ni, IDCommitmentOf(k), UserMessageLimitOf(k))
         IN  InsertAll(r.leaves, r.nextIndex, k + 1)

InitRecover ==
    /\ leaves = InsertAll(EmptyLeaves(ProofTreeDepth), 0, 1).leaves
    /\ nextIndex = InsertAll(EmptyLeaves(ProofTreeDepth), 0, 1).nextIndex
    /\ last = Call("NewRLN", 0, <<>>, <<>>, 0, "", ZeroWord)
    /\ undo = NoUndo
    /\ proofs = NoProofs

NextRecover ==
    \/ \E slot \in ProofSlots, data \in Msgs, k \in CredIds, epoch \in Epochs,
          messageId \in MessageIds :
          GenerateProof(slot, data, k, k - 1, epoch, messageId)
    \/ \E slot1 \in ProofSlots : \E slot2 \in ProofSlots \ {slot1} :
          RecoverIDSecret(slot1, slot2)

SpecRecover == InitRecover /\ [][NextRecover]_vars

(***************************************************************************)
(* Proof calls between changes of the tree.                                *)
(***************************************************************************)
NextFrame ==
    \/ \E k \in CredIds : InsertMember(IDCommitmentOf(k), UserMessageLimitOf(k))
    \/ \E i \in Indices(leaves) : DeleteMember(i)
    \/ \E data \in Msgs, i \in Indices(leaves), messageId \in MessageIds :
          GenerateProof(1, data, Prover, i, Atom(1), messageId)
    \/ \E data \in Msgs, roots \in SeqsUpTo(RootChoices(1), 1) : Verify(1, data, roots)
    \/ RecoverIDSecret(1, 1)
    \/ \E data \in Msgs : CallSha256(data)
    \/ \E input \in Msgs : CallPoseidon(input)
    \/ \E treeHeight \in ProofTreeHeights : SetTree(treeHeight)

SpecFrame == InitProof /\ [][NextFrame]_vars

(***************************************************************************)
(* Members added one by one and in lists.                                  *)
(***************************************************************************)
CredLists == SeqsUpTo({Cred(k) : k \in CredIds}, MaxBatch)

NextMembers ==
    \/ \E k \in CredIds : InsertMember(IDCommitmentOf(k), UserMessageLimitOf(k))
    \/ \E i \in Indices(leaves) : InsertMemberAt(i, IDCommitmentOf(Prover))
    \/ \E i \in Indices(leaves) : DeleteMember(i)
    \/ \E list \in CredLists : AddAll(list)
    \/ \E treeHeight \in TreeHeights : SetTree(treeHeight)

SpecMembers == Init /\ [][NextMembers]_vars

(***************************************************************************)
(* The wire codec (serialize.go, rln.go), over bytes.  A 64-bit value is   *)
(* its eight little-endian digits, and its arithmetic is done on them, so  *)
(* that it wraps where the code's does.                                    *)
(***************************************************************************)
RECURSIVE PutUint64Digits(_, _)
PutUint64Digits(k, n) ==
    IF n = 0 THEN <<>> ELSE <<k % 256>> \o PutUint64Digits(k \div 256, n - 1)

\* binary.LittleEndian.PutUint64 of a number
PutUint64(k) == PutUint64Digits(k, 8)

\* a + b + carry of little-endian digits of equal length, the last carry dropped
RECURSIVE AddUint64(_, _, _)
AddUint64(a, b, carry) ==
    IF a = <<>> THEN <<>>
    ELSE <<(Head(a) + Head(b) + carry) % 256>>
            \o AddUint64(Tail(a), Tail(b), (Head(a) + Head(b) + carry) \div 256)

\* 32 * a, the bits shifted out of the last digit dropped
Mul32Uint64(a) ==
    [j \in 1 .. Len(a) |-> ((a[j] * 32) % 256) + (IF j > 1 THEN a[j - 1] \div 8 ELSE 0)]

\* The number of a 64-bit value below 2^24, and whether it is one.
IsSmallUint64(a) == \A j \in 4 .. Len(a) : a[j] = 0
SmallUint64(a) == a[1] + 256 * a[2] + 65536 * a[3]

appendLength(input) == PutUint64(Len(input)) \o input

\* binary.LittleEndian.PutUint32 of a number
PutUint32(k) == PutUint64Digits(k, 4)

\* a [32]byte whose first bytes are given and whose other bytes are zero
Pad32(bytes) == [j \in 1 .. 32 |-> IF j <= Len(bytes) THEN bytes[j] ELSE 0]

\* Mutant: the messageId is written before the limit.
serializeSwapped(idKey, memIndex, userMessageLimit, messageId, externalNullifier, msg) ==
    idKey \o PutUint64(memIndex) \o Pad32(PutUint32(messageId))
        \o Pad32(PutUint32(userMessageLimit)) \o externalNullifier \o appendLength(msg)

serialize(idKey, memIndex, userMessageLimit, messageId, externalNullifier, msg) ==
    LET memIndexBytes == PutUint64(memIndex)
        lenPrefMsg == appendLength(msg)
        userMessageLimitByte == Pad32(PutUint32(userMessageLimit))
        messageIdByte == Pad32(PutUint32(messageId))
    IN  idKey \o memIndexBytes \o userMessageLimitByte \o messageIdByte
            \o externalNullifier \o lenPrefMsg

\* Mutant: ShareY is written before ShareX.
RateLimitProof_serializeSwapped(r) ==
    r.Proof \o r.MerkleRoot \o r.ExternalNullifier \o r.ShareY \o r.ShareX \o r.Nullifier

RateLimitProof_serialize(r) ==
    r.Proof \o r.MerkleRoot \o r.ExternalNullifier \o r.ShareX \o r.ShareY \o r.Nullifier

RateLimitProof_serializeWithData(r, data) ==
    LET lenPrefMsg == appendLength(data)
        proofBytes == RateLimitProof_serialize(r)
    IN  proofBytes \o lenPrefMsg

\* b[lo:hi]
Slice(b, lo, hi) == SubSeq(b, lo + 1, hi)

\* The part of GenerateProof that decodes the oracle's output.
GenerateProofDecode(proofBytes) ==
    IF Len(proofBytes) # 288
    THEN [err |-> "invalid proof generated", proof |-> NoProof]
    ELSE LET proofOffset == 128
             rootOffset == proofOffset + 32
             externalNullifierOffset == rootOffset + 32
             shareXOffset == externalNullifierOffset + 32
             shareYOffset == shareXOffset + 32
             nullifierOffset == shareYOffset + 32
         IN  [err |-> "",
              proof |-> [Proof |-> Slice(proofBytes, 0, proofOffset),
                         MerkleRoot |-> Slice(proofBytes, proofOffset, rootOffset),
                         ExternalNullifier |->
                             Slice(proofBytes, rootOffset, externalNullifierOffset),
                         ShareX |-> Slice(proofBytes, externalNullifierOffset, shareXOffset),
                         ShareY |-> Slice(proofBytes, shareXOffset, shareYOffset),
                         Nullifier |-> Slice(proofBytes, shareYOffset, nullifierOffset)]]

MerkleProofResult(err, panic, elements, indexes, offset) ==
    [err |-> err, panic |-> panic, PathElements |-> elements, PathIndexes |-> indexes,
     offset |-> offset]

\* MerkleProof.deserialize: the error returned, or the panic of make when the
\* count is out of range, and the fields of the receiver as the call leaves
\* them.  An input of the model is shorter than 16 + 33 * 2^24 bytes, so a
\* count of 2^24 or more that passes the length check has wrapped and is
\* beyond what make accepts.
MerkleProof_deserialize(b) ==
    IF Len(b) < 8 THEN MerkleProofResult("wrong input size", FALSE, <<>>, <<>>, 0)
    ELSE LET numElements == Slice(b, 0, 8)
             expectedLen ==
                 AddUint64(AddUint64(AddUint64(PutUint64(8), Mul32Uint64(numElements), 0),
                                     PutUint64(8), 0),
                           numElements, 0)
         IN  IF PutUint64(Len(b)) # expectedLen
             THEN MerkleProofResult("wrong input size expected", FALSE, <<>>, <<>>, 8)
             ELSE IF ~IsSmallUint64(numElements)
             THEN MerkleProofResult("", TRUE, <<>>, <<>>, 8)
             ELSE LET n == SmallUint64(numElements)
                      elements == [i \in 1 .. n |-> Slice(b, 8 + 32 * (i - 1), 8 + 32 * i)]
                      numIndexes == Slice(b, 8 + 32 * n, 16 + 32 * n)
                      indexes == [i \in 1 .. n |-> b[16 + 32 * n + i]]
                  IN  IF numIndexes # numElements
                      THEN MerkleProofResult("amount of values in path and indexes do not match",
                                             FALSE, elements, <<>>, 16 + 32 * n)
                      ELSE IF 16 + 33 * n # Len(b)
                      THEN MerkleProofResult("error parsing proof", FALSE, elements, indexes,
                                             16 + 33 * n)
                      ELSE MerkleProofResult("", FALSE, elements, indexes, 16 + 33 * n)

\* The inputs of the codec: byte strings built like a Merkle proof, cut short
\* or with counts that do not agree, and byte strings around 288 bytes long.
\* WrapCount is the count n with 16 + 33 * n = 8 modulo 2^64.
WrapCount == <<248, 224, 131, 15, 62, 248, 224, 131>>
CountChoices == {PutUint64(c) : c \in 0 .. MaxPath} \cup {WrapCount}
PathBytes(m, fill) == [j \in 1 .. 32 * m |-> (fill + (j - 1) \div 32) % 256]
IndexBytes(n) == [j \in 1 .. n |-> j % 2]
MerkleProofInputs ==
    {c1 \o PathBytes(m, fill) \o c2 \o IndexBytes(n) :
        c1 \in CountChoices, c2 \in CountChoices, m \in 0 .. MaxPath, n \in 0 .. MaxPath,
        fill \in {0, 254}}
      \cup {SubSeq(c, 1, t) : c \in CountChoices, t \in 0 .. 8}
BytePattern(len, stride, first) == [j \in 1 .. len |-> (first + stride * (j - 1)) % 256]
ProofOutputs ==
    {BytePattern(len, stride, first) :
        len \in {287, 288, 289}, stride \in 1 .. MaxStride, first \in {0, 200}}
DataChoices == {BytePattern(len, 1, 65) : len \in {0, 1, 2, 257}}

DeserializeMerkleProof ==
    /\ last.op = "wire"
    /\ last' = [op |-> "MerkleProof.deserialize", b |-> last.b,
                r |-> MerkleProof_deserialize(last.b)]
    /\ UNCHANGED <<leaves, nextIndex, undo, proofs>>

DecodeProof ==
    /\ last.op = "wire"
    /\ last' = [op |-> "GenerateProof.decode", b |-> last.b,
                r |-> GenerateProofDecode(last.b)]
    /\ UNCHANGED <<leaves, nextIndex, undo, proofs>>

SerializeProof(data) ==
    /\ last.op = "GenerateProof.decode"
    /\ last.r.err = ""
    /\ last' = [op |-> "RateLimitProof.serialize", b |-> last.b, proof |-> last.r.proof,
                data |-> data,
                out |-> RateLimitProof_serialize(last.r.proof),
                outWithData |-> RateLimitProof_serializeWithData(last.r.proof, data)]
    /\ UNCHANGED <<leaves, nextIndex, undo, proofs>>

\* The arguments of serialize that are tried.
WitnessInputs ==
    [idKey : {BytePattern(32, 1, 1), BytePattern(32, 1, 2)},
     memIndex : {0, 258},
     userMessageLimit : {10, 65537},
     messageId : {0, 513},
     externalNullifier : {BytePattern(32, 3, 7), BytePattern(32, 0, 0)},
     msg : {BytePattern(len, 1, 65) : len \in {0, 1, 257}}]

SerializeWitness(w) ==
    /\ last.op = "wire"
    /\ last.b = <<>>
    /\ last' = [op |-> "serialize", w |-> w,
                out |-> serialize(w.idKey, w.memIndex, w.userMessageLimit, w.messageId,
                                  w.externalNullifier, w.msg)]
    /\ UNCHANGED <<leaves, nextIndex, undo, proofs>>

\* What GenerateProof hands to the oracle, over words.
WitnessOfGenerateProof(data, k, index, epoch, messageId) ==
    /\ last.op = "wire"
    /\ last.b = <<>>
    /\ \E o \in GenerateProofCall(leaves, data, Cred(k), index, epoch, messageId) :
          last' = [op |-> "GenerateProof.witness", data |-> data, cred |-> k,
                   index |-> index, epoch |-> epoch, messageId |-> messageId,
                   input |-> o.input]
    /\ UNCHANGED <<leaves, nextIndex, undo, proofs>>

(***************************************************************************)
(* Credential generation (rln.go).  The oracle's key generation returns    *)
(* nil or a byte string; which one is not in the wrapper's hands.          *)
(***************************************************************************)
DEFAULT_USER_MESSAGE_LIMIT == 10

NilKey == [nil |-> TRUE]
KeyGenResult(err, key, called) == [err |-> err, key |-> key, oracleCalled |-> called]

toIdentityCredential(generatedKeys, userMessageLimit) ==
    IF Len(generatedKeys) # 32 * 4
    THEN [err |-> "generated keys are of invalid length", key |-> NilKey]
    ELSE [err |-> "",
          key |-> [nil |-> FALSE,
                   IDTrapdoor |-> Slice(generatedKeys, 0, 32),
                   IDNullifier |-> Slice(generatedKeys, 32, 64),
                   IDSecretHash |-> Slice(generatedKeys, 64, 96),
                   IDCommitment |-> Slice(generatedKeys, 96, 128),
                   UserMessageLimit |-> userMessageLimit]]

\* Mutant: the first of several limits is taken.
MembershipKeyGenCallFirst(params, generated) ==
    LET userMessageLimit ==
            IF Len(params) >= 1 THEN params[1] ELSE DEFAULT_USER_MESSAGE_LIMIT
        k == toIdentityCredential(generated.bytes, userMessageLimit)
    IN  IF generated.nil THEN KeyGenResult("error in key generation", NilKey, TRUE)
        ELSE KeyGenResult(k.err, k.key, TRUE)

\* generated is what the oracle's ExtendedKeyGen returns if it is called.
MembershipKeyGenCall(params, generated) ==
    IF Len(params) > 1
    THEN KeyGenResult("just one user message limit is allowed", NilKey, FALSE)
    ELSE LET userMessageLimit ==
                 IF Len(params) = 1 THEN params[1] ELSE DEFAULT_USER_MESSAGE_LIMIT
             k == toIdentityCredential(generated.bytes, userMessageLimit)
         IN  IF generated.nil THEN KeyGenResult("error in key generation", NilKey, TRUE)
             ELSE KeyGenResult(k.err, k.key, TRUE)

\* generated is what the oracle's ExtendedSeededKeyGen(seed) returns if it is
\* called.
SeededMembershipKeyGenCall(seed, params, generated) ==
    IF Len(params) > 1
    THEN KeyGenResult("just one user message limit is allowed", NilKey, FALSE)
    ELSE LET userMessageLimit ==
                 IF Len(params) = 1 THEN params[1] ELSE DEFAULT_USER_MESSAGE_LIMIT
             k == toIdentityCredential(generated.bytes, userMessageLimit)
         IN  IF generated.nil THEN KeyGenResult("error in key generation", NilKey, TRUE)
             ELSE KeyGenResult(k.err, k.key, TRUE)

\* What the key generation of the oracle may return: nil, a string of a wrong
\* length, or 128 bytes, among them all zeros and one zero field.
Zero32 == [j \in 1 .. 32 |-> 0]
KeyGenOutputs ==
    {[nil |-> TRUE, bytes |-> <<>>]}
      \cup {[nil |-> FALSE, bytes |-> b] :
              b \in {<<>>, BytePattern(127, 1, 1), BytePattern(129, 1, 1),
                     BytePattern(128, 1, 1), BytePattern(128, 0, 0),
                     Zero32 \o BytePattern(96, 1, 1),
                     BytePattern(96, 1, 1) \o Zero32}}
ParamChoices == SeqsUpTo({0, 10, 20}, MaxParams)
SeedChoices == {<<>>, BytePattern(2, 1, 1)}

\* The oracle's answer is kept only if the oracle was asked.
KeyGenOutcome(op, params, generated, r) ==
    [op |-> op, params |-> params, err |-> r.err, key |-> r.key,
     oracleCalled |-> r.oracleCalled,
     generated |-> IF r.oracleCalled THEN generated ELSE [nil |-> TRUE, bytes |-> <<>>]]

MembershipKeyGen(params, generated) ==
    /\ last.op = "wire"
    /\ last.b = <<>>
    /\ last' = KeyGenOutcome("MembershipKeyGen", params, generated,
                             MembershipKeyGenCall(params, generated))
    /\ UNCHANGED <<leaves, nextIndex, undo, proofs>>

SeededMembershipKeyGen(seed, params, generated) ==
    /\ last.op = "wire"
    /\ last.b = <<>>
    /\ last' = KeyGenOutcome("SeededMembershipKeyGen", params, generated,
                             SeededMembershipKeyGenCall(seed, params, generated))
    /\ UNCHANGED <<leaves, nextIndex, undo, proofs>>

(***************************************************************************)
(* What the wrapper returns for what the oracle returned (rln.go), over    *)
(* bytes.  o is the oracle's answer: its error and its output.             *)
(***************************************************************************)
ValueResult(err, out) == [err |-> err, out |-> out]

Sha256Return(o) ==
    IF o.err # "" THEN ValueResult(o.err, Zero32) ELSE ValueResult("", Pad32(o.out))

PoseidonReturn(o) ==
    IF o.err # "" THEN ValueResult(o.err, Zero32) ELSE ValueResult("", Pad32(o.out))

RecoverIDSecretReturn(o) ==
    IF o.err # "" THEN ValueResult(o.err, Zero32) ELSE ValueResult("", Pad32(o.out))

GetMerkleRootReturn(o) ==
    IF o.err # "" THEN ValueResult(o.err, Zero32)
    ELSE IF Len(o.out) # 32 THEN ValueResult("wrong output size", Zero32)
    ELSE ValueResult("", Pad32(o.out))

GetLeafReturn(o) ==
    IF o.err # "" THEN ValueResult(o.err, Zero32)
    ELSE IF Len(o.out) # 32 THEN ValueResult("wrong output size", Zero32)
    ELSE ValueResult("", Pad32(o.out))

GenerateProofReturn(o) ==
    IF o.err # "" THEN ValueResult(o.err, NoProof)
    ELSE ValueResult(GenerateProofDecode(o.out).err, GenerateProofDecode(o.out).proof)

\* The answers of the oracle that are tried: a failure, and outputs of the
\* expected sizes, one byte less, one byte more, and none.
OracleAnswers ==
    {[err |-> "oracle failure", out |-> <<>>]}
      \cup {[err |-> "", out |-> BytePattern(len, 1, 1)] :
              len \in {0, 31, 32, 33, 287, 288, 289}}
ValueCalls ==
    {"Sha256", "Poseidon", "RecoverIDSecret", "GetMerkleRoot", "GetLeaf", "GenerateProof"}

ValueFromOracle(call, o) ==
    /\ last.op = "wire"
    /\ last.b = <<>>
    /\ last' = [op |-> "ValueFromOracle", call |-> call, o |-> o,
                r |-> CASE call = "Sha256" -> Sha256Return(o)
                        [] call = "Poseidon" -> PoseidonReturn(o)
                        [] call = "RecoverIDSecret" -> RecoverIDSecretReturn(o)
                        [] call = "GetMerkleRoot" -> GetMerkleRootReturn(o)
                        [] call = "GetLeaf" -> GetLeafReturn(o)
                        [] call = "GenerateProof" -> GenerateProofReturn(o)]
    /\ UNCHANGED <<leaves, nextIndex, undo, proofs>>

(***************************************************************************)
(* Proofs from a witness (rln.go, serialize.go).                           *)
(***************************************************************************)
RECURSIVE Flatten(_)
Flatten(elements) ==
    IF elements = <<>> THEN <<>> ELSE Head(elements) \o Flatten(Tail(elements))

appendLength32(input) == PutUint64(Len(input) \div 32) \o input

MerkleProof_serialize(r) ==
    appendLength32(Flatten(r.PathElements)) \o appendLength(r.PathIndexes)

RLNWitnessInput_serialize(r) ==
    r.IDSecretHash \o MerkleProof_serialize(r.MerkleProof) \o r.X \o r.Epoch
        \o r.RlnIdentifier

WitnessProofResult(err, proof, input) == [err |-> err, proof |-> proof, input |-> input]

\* Mutant: the code after the return is run: the witness is serialized and
\* handed to the oracle, whose answer o is decoded.
GenerateRLNProofWithWitnessCallLive(witness, o) ==
    IF o.err # "" THEN WitnessProofResult(o.err, NilKey, <<RLNWitnessInput_serialize(witness)>>)
    ELSE WitnessProofResult("invalid proof generated", NilKey,
                            <<RLNWitnessInput_serialize(witness)>>)

\* input is the list of byte strings handed to the oracle: none.
GenerateRLNProofWithWitnessCall(witness, o) ==
    WitnessProofResult("not implemented", NilKey, <<>>)

\* The error and the receiver after the call.
RLNWitnessInput_deserialize(r, b) == [err |-> "not implemented", r |-> r]

WitnessChoices ==
    {[IDSecretHash |-> BytePattern(32, 1, first),
      MerkleProof |-> [PathElements |-> [i \in 1 .. n |-> BytePattern(32, 1, i)],
                       PathIndexes |-> IndexBytes(n)],
      X |-> BytePattern(32, 2, first),
      Epoch |-> Pad32(PutUint64(first)),
      RlnIdentifier |-> RLN_IDENTIFIER] : first \in {1, 200}, n \in 0 .. MaxPath}

GenerateRLNProofWithWitness(witness, o) ==
    /\ last.op = "wire"
    /\ last.b = <<>>
    /\ LET r == GenerateRLNProofWithWitnessCall(witness, o)
       IN  last' = [op |-> "GenerateRLNProofWithWitness", witness |-> witness,
                    err |-> r.err, proof |-> r.proof, input |-> r.input]
    /\ UNCHANGED <<leaves, nextIndex, undo, proofs>>

DeserializeWitness(r, b) ==
    /\ last.op = "wire"
    /\ last.b = <<>>
    /\ LET d == RLNWitnessInput_deserialize(r, b)
       IN  last' = [op |-> "RLNWitnessInput.deserialize", before |-> r, b |-> b,
                    err |-> d.err, after |-> d.r]
    /\ UNCHANGED <<leaves, nextIndex, undo, proofs>>

(***************************************************************************)
(* Epochs (section 3 of the specification; TestEpochConsistency and        *)
(* TestEpochComparison).  A uint64 is its eight little-endian bytes, an    *)
(* int64 the eight bytes of its two's complement.                          *)
(***************************************************************************)
\* a - b - borrow of little-endian digits of equal length, the last borrow dropped
RECURSIVE SubUint64(_, _, _)
SubUint64(a, b, borrow) ==
    IF a = <<>> THEN <<>>
    ELSE <<(256 + Head(a) - Head(b) - borrow) % 256>>
            \o SubUint64(Tail(a), Tail(b),
                         IF Head(a) - Head(b) - borrow < 0 THEN 1 ELSE 0)

LessUint64(a, b) ==
    \E j \in 1 .. Len(a) : a[j] < b[j] /\ \A i \in j + 1 .. Len(a) : a[i] = b[i]

\* -1, 0 or 1 as an int64 is negative, zero or positive
Int64Sign(d) ==
    IF d[Len(d)] >= 128 THEN 0 - 1
    ELSE IF \A j \in 1 .. Len(d) : d[j] = 0 THEN 0 ELSE 1

\* the 32-byte epoch of a counter: its 8 little-endian bytes, zero-padded
ToEpoch(t) == Pad32(t)

Epoch_Uint64(e) == Slice(e, 0, 8)

MaxInt64 == [j \in 1 .. 8 |-> IF j = 8 THEN 127 ELSE 255]
MinInt64 == [j \in 1 .. 8 |-> IF j = 8 THEN 128 ELSE 0]

\* Mutant: the counters are subtracted in 64 bits and the result read as signed,
\* so that a difference of 2^63 or more changes sign.
DiffWrapping(e1, e2) == SubUint64(Epoch_Uint64(e1), Epoch_Uint64(e2), 0)

\* The signed difference of the two counters as an int64: positive when the
\* first counter is the greater, negative when it is the smaller; a difference
\* beyond the int64 range is the nearest int64.
Diff(e1, e2) ==
    LET epoch1 == Epoch_Uint64(e1)
        epoch2 == Epoch_Uint64(e2)
        d == SubUint64(epoch1, epoch2, 0)
    IN  IF LessUint64(epoch2, epoch1) THEN (IF d[8] >= 128 THEN MaxInt64 ELSE d)
        ELSE IF LessUint64(epoch1, epoch2) THEN (IF d[8] < 128 THEN MinInt64 ELSE d)
        ELSE d

MaxUint64 == [j \in 1 .. 8 |-> 255]

EpochCounters ==
    {PutUint64(0), PutUint64(1), PutUint64(1000),
     [j \in 1 .. 8 |-> IF j = 8 THEN 127 ELSE 255],
     [j \in 1 .. 8 |-> IF j = 8 THEN 128 ELSE 0],
     SubUint64(MaxUint64, PutUint64(1), 0), MaxUint64}

EpochComparison(time1, time2) ==
    /\ last.op = "wire"
    /\ last.b = <<>>
    /\ last' = [op |-> "Diff", time1 |-> time1, time2 |-> time2,
                diff |-> Diff(ToEpoch(time1), ToEpoch(time2)),
                reverse |-> Diff(ToEpoch(time2), ToEpoch(time1)),
                decoded |-> Epoch_Uint64(ToEpoch(time1))]
    /\ UNCHANGED <<leaves, nextIndex, undo, proofs>>

InitCodec ==
    /\ leaves = EmptyLeaves(ProofTreeDepth)
    /\ nextIndex = 0
    /\ \E b \in MerkleProofInputs \cup ProofOutputs : last = [op |-> "wire", b |-> b]
    /\ undo = NoUndo
    /\ proofs = NoProofs

NextCodec ==
    \/ DeserializeMerkleProof
    \/ DecodeProof
    \/ \E data \in DataChoices : SerializeProof(data)
    \/ \E w \in WitnessInputs : SerializeWitness(w)
    \/ \E time1 \in EpochCounters, time2 \in EpochCounters : EpochComparison(time1, time2)
    \/ \E witness \in WitnessChoices, o \in OracleAnswers :
          GenerateRLNProofWithWitness(witness, o)
    \/ \E r \in WitnessChoices, w \in WitnessChoices :
          \E b \in {<<>>, RLNWitnessInput_serialize(w)} : DeserializeWitness(r, b)
    \/ \E call \in ValueCalls, o \in OracleAnswers : ValueFromOracle(call, o)
    \/ \E params \in ParamChoices, g \in KeyGenOutputs : MembershipKeyGen(params, g)
    \/ \E seed \in SeedChoices, params \in ParamChoices, g \in KeyGenOutputs :
          SeededMembershipKeyGen(seed, params, g)
    \/ \E data \in Msgs, k \in CredIds, i \in Indices(leaves), epoch \in Epochs,
          messageId \in MessageIds : WitnessOfGenerateProof(data, k, i, epoch, messageId)

SpecCodec == InitCodec /\ [][NextCodec]_vars

(***************************************************************************)
(* Merkle proofs of the tree (rln.go GetMerkleProof).  The oracle hands    *)
(* the path out as bytes, a word as its 32 bytes.                          *)
(***************************************************************************)
WordToBytes(w) == Pad32([j \in 1 .. Len(w) |-> (w[j] + 256) % 256])

\* getMerkleProof(index) -> bytes, or failure when the index is out of range
OracleGetMerkleProof(lv, index) ==
    IF index < Capacity(lv)
    THEN [err |-> "",
          out |-> MerkleProof_serialize(
                      [PathElements |->
                           [j \in 1 .. TreeDepth(lv) |->
                               WordToBytes(PathElementsFrom(lv, 0, index)[j])],
                       PathIndexes |-> PathIndexesFrom(lv, 0, index)])]
    ELSE [err |-> "index out of range", out |-> <<>>]

EmptyMerkleProof == [PathElements |-> <<>>, PathIndexes |-> <<>>]

\* Mutant: the bytes of the oracle are not parsed.
GetMerkleProofCallUnparsed(lv, index) ==
    [err |-> OracleGetMerkleProof(lv, index).err, panic |-> FALSE, out |-> EmptyMerkleProof]

GetMerkleProofCall(lv, index) ==
    LET o == OracleGetMerkleProof(lv, index)
        result == MerkleProof_deserialize(o.out)
    IN  IF o.err # "" THEN [err |-> o.err, panic |-> FALSE, out |-> EmptyMerkleProof]
        ELSE IF result.panic THEN [err |-> "", panic |-> TRUE, out |-> EmptyMerkleProof]
        ELSE IF result.err # ""
        THEN [err |-> result.err, panic |-> FALSE, out |-> EmptyMerkleProof]
        ELSE [err |-> "", panic |-> FALSE,
              out |-> [PathElements |-> result.PathElements,
                       PathIndexes |-> result.PathIndexes]]

GetMerkleProof(index) ==
    LET r == GetMerkleProofCall(leaves, index)
    IN  /\ last' = [Call("GetMerkleProof", index, <<>>, <<>>, 0, r.err, r.out)
                       EXCEPT !.mixed = r.panic]
        /\ undo' = NoUndo
        /\ UNCHANGED <<leaves, nextIndex, proofs>>

NextMerkleProof ==
    \/ \E k \in CredIds : InsertMember(IDCommitmentOf(k), UserMessageLimitOf(k))
    \/ \E i \in Indices(leaves) : InsertMemberAt(i, IDCommitmentOf(Prover))
    \/ \E i \in Indices(leaves) : DeleteMember(i)
    \/ \E i \in Indices(leaves) : GetMerkleProof(i)
    \/ \E treeHeight \in TreeHeights : SetTree(treeHeight)

SpecMerkleProof == Init /\ [][NextMerkleProof]_vars

(***************************************************************************)
(* The helpers of a static group (rln.go CalcMerkleRoot,                   *)
(* CreateMembershipList).  Each builds a tree of its own, of the default   *)
(* depth; a generated key is the credential the oracle has drawn, or      *)
(* stands for a nil or a wrongly sized answer of the oracle.                *)
(***************************************************************************)
MaxGroup == 5
DefaultTreeDepth == MaxTreeDepth

\* new(depth, config): an instance with an empty tree of the depth, or an error.
OracleNew(depth) ==
    {[err |-> "", leaves |-> EmptyLeaves(depth), nextIndex |-> 0],
     [err |-> "could not create the instance", leaves |-> <<>>, nextIndex |-> 0]}

\* The outcomes of NewWithConfig: the configuration cannot be marshalled, or
\* what the oracle answers; with an error there is no instance.
NewWithConfig(depth) ==
    {[err |-> "could not marshal the configuration", leaves |-> <<>>, nextIndex |-> 0]}
        \cup OracleNew(depth)

NewRLN == NewWithConfig(DefaultTreeDepth)

\* The outcomes of CalcMerkleRoot, one for each outcome of NewRLN.
CalcMerkleRootCall(list) ==
    {IF rln.err # "" THEN [err |-> rln.err, out |-> ZeroWord]
     ELSE LET r == InsertMembersCall(rln.leaves, rln.nextIndex, 0, list)
          IN  IF r.err # "" THEN [err |-> r.err, out |-> ZeroWord]
              ELSE GetMerkleRoot(r.leaves) : rln \in NewRLN}

\* What the oracle's ExtendedKeyGen returns: the 128 bytes of credential k
\* (key k), nil (NilKeyW), or a slice that is not 128 bytes long (ShortKeyW).
NilKeyW == 0
ShortKeyW == 0 - 1

\* toIdentityCredential on a non-nil key, over words.
toIdentityCredentialW(key, userMessageLimit) ==
    IF key = ShortKeyW
    THEN [err |-> "generated keys are of invalid length", cred |-> Cred(1)]
    ELSE [err |-> "", cred |-> [Cred(key) EXCEPT !.UserMessageLimit = userMessageLimit]]

\* MembershipKeyGen() of the wrapper, without a limit: the default limit.
MembershipKeyGenW(key) ==
    IF key = NilKeyW THEN [err |-> "error in key generation", cred |-> Cred(1)]
    ELSE toIdentityCredentialW(key, DEFAULT_USER_MESSAGE_LIMIT)

MembershipListResult(err, output, root) == [err |-> err, list |-> output, root |-> root]

\* The loop of CreateMembershipList from its i-th round on.
RECURSIVE CreateMembershipListFrom(_, _, _, _)
CreateMembershipListFrom(lv, ni, keys, output) ==
    IF keys = <<>>
    THEN LET root == GetMerkleRoot(lv)
         IN  IF root.err # "" THEN MembershipListResult(root.err, <<>>, ZeroWord)
             ELSE MembershipListResult("", output, root.out)
    ELSE LET keypair == MembershipKeyGenW(Head(keys))
             r == InsertMemberCall(lv, ni, keypair.cred.IDCommitment,
                                   keypair.cred.UserMessageLimit)
         IN  IF keypair.err # "" THEN MembershipListResult(keypair.err, <<>>, ZeroWord)
             ELSE IF r.err # "" THEN MembershipListResult(r.err, <<>>, ZeroWord)
             ELSE CreateMembershipListFrom(r.leaves, r.nextIndex, Tail(keys),
                                           Append(output, keypair.cred))

\* The outcomes of CreateMembershipList, one for each outcome of NewRLN; keys
\* are the n keys the oracle generates, in order, when it is asked.
CreateMembershipListCall(n, keys) ==
    {IF rln.err # "" THEN MembershipListResult(rln.err, <<>>, ZeroWord)
     ELSE CreateMembershipListFrom(rln.leaves, rln.nextIndex, keys, <<>>) : rln \in NewRLN}

GeneratedKeys(n) == [1 .. n -> CredIds \cup {NilKeyW, ShortKeyW}]

CreateMembershipList(n, keys) ==
    /\ last.op = "NewRLN"
    /\ \E r \in CreateMembershipListCall(n, keys) :
          last' = [op |-> "CreateMembershipList", n |-> n, keys |-> keys, err |-> r.err,
                   list |-> r.list, root |-> r.root]
    /\ UNCHANGED <<leaves, nextIndex, undo, proofs>>

\* CalcMerkleRoot of the commitments of the list CreateMembershipList returned.
CalcMerkleRoot ==
    /\ last.op = "CreateMembershipList"
    /\ last.err = ""
    /\ LET list == [j \in 1 .. Len(last.list) |-> last.list[j].IDCommitment]
       IN  \E r \in CalcMerkleRootCall(list) :
              last' = [op |-> "CalcMerkleRoot", n |-> last.n, list |-> list, err |-> r.err,
                       root |-> r.out, created |-> last.root]
    /\ UNCHANGED <<leaves, nextIndex, undo, proofs>>

NextStatic ==
    \/ \E n \in 1 .. MaxGroup : \E keys \in GeneratedKeys(n) : CreateMembershipList(n, keys)
    \/ CalcMerkleRoot

SpecStatic == InitProof /\ [][NextStatic]_vars

(***************************************************************************)
(* Claims about the tree.                                                  *)
(***************************************************************************)
BatchOps == {"AtomicOperation", "InsertMembers", "DeleteMembers"}

\* after is before with comms written from slot index and the slots of rem
\* (that no insertion covers) zeroed, and nothing else changed.
Applied(before, after, index, comms, rem) ==
    \A s \in Slots :
        after[s + 1] =
            IF s >= index /\ s < index + Len(comms) THEN comms[s - index + 1]
            ELSE IF \E j \in 1 .. Len(rem) : rem[j] = s THEN ZeroWord
            ELSE before[s + 1]

\* C2: AtomicOperation, InsertMembers and DeleteMembers are all-or-nothing: a
\* call that returns an error leaves every leaf, the root and LeavesSet as they
\* were; a call that returns nil has applied every insertion (from index on)
\* and every deletion.
C2_AtomicAllOrNothing ==
    [][last'.op \in BatchOps =>
        IF last'.err # ""
        THEN /\ leaves' = leaves
             /\ GetMerkleRoot(leaves') = GetMerkleRoot(leaves)
             /\ LeavesSet(nextIndex') = LeavesSet(nextIndex)
        ELSE Applied(leaves, leaves', last'.index, last'.comms, last'.rem)]_vars

\* A batch was refused although part of it was applicable to a non-empty tree.
C2_Witness ==
    /\ last.op = "AtomicOperation"
    /\ last.err # ""
    /\ last.mixed
    /\ leaves # EmptyLeaves(TreeDepth(leaves))

\* C3 as stated: an insert at any slot followed by DeleteMember of that slot
\* gives back the root from before the insert.
C3_RootRestoredAnySlot ==
    undo.stage = "deleted" => GetMerkleRoot(leaves) = [err |-> "", out |-> undo.root]

\* C3 amended: an insert at a slot that held the zero value, followed by
\* DeleteMember of that slot, gives back the root from before the insert.
C3_RootRestoredEmptySlot ==
    (undo.stage = "deleted" /\ undo.leaf = ZeroWord)
        => GetMerkleRoot(leaves) = [err |-> "", out |-> undo.root]

\* An empty slot of a non-empty tree was filled and deleted again.
C3_Witness ==
    /\ undo.stage = "deleted"
    /\ undo.leaf = ZeroWord
    /\ leaves # EmptyLeaves(TreeDepth(leaves))
    /\ TreeDepth(leaves) > 1

RateCommitments ==
    {PoseidonFr(<<c, SerializeUint32(l)>>) : c \in Commitments, l \in Limits}

\* C4 as stated: every leaf is the zero value or the hash of a commitment with a
\* message limit.
C4_EveryLeafHashed ==
    \A s \in Slots : leaves[s + 1] \in {ZeroWord} \cup RateCommitments

\* C4 amended: InsertMember(c, l) stores Poseidon(c, SerializeUint32(l)) in the
\* next free slot; InsertMemberAt, InsertMembers, AtomicOperation and
\* InitTreeWithMembers store the values they are given unchanged; so every leaf
\* is the zero value, a value given to one of the latter, or such a hash.
C4_LeafOfInsert ==
    /\ (last.op = "InsertMember" /\ last.err = "")
          => GetLeaf(leaves, last.index) =
                [err |-> "",
                 out |-> PoseidonFr(<<last.comms[1], SerializeUint32(last.limit)>>)]
    /\ (last.op \in {"InsertMemberAt", "InsertMembers", "AtomicOperation",
                     "InitTreeWithMembers"} /\ last.err = "")
          => \A j \in 1 .. Len(last.comms) :
                GetLeaf(leaves, last.index + j - 1) = [err |-> "", out |-> last.comms[j]]
    /\ \A s \in Slots : leaves[s + 1] \in {ZeroWord} \cup Commitments \cup RateCommitments

\* InsertMember put a member behind others.
C4_Witness ==
    /\ last.op = "InsertMember"
    /\ last.err = ""
    /\ last.index > 1

(***************************************************************************)
(* Claims about proofs.                                                    *)
(***************************************************************************)
CurrentRoot == GetMerkleRoot(leaves).out
Held(slot) == proofs[slot]
WithinLimit(slot) == Held(slot).messageId < UserMessageLimitOf(Held(slot).cred)

\* C1: GenerateProof with a messageId at or beyond the credential's
\* UserMessageLimit returns an error, and the oracle is not called with a
\* witness whose messageId is at or beyond the limit.
C1_RejectsBeyondLimit ==
    last.op = "GenerateProof" =>
        /\ last.overLimit => last.err # "" /\ ~last.oracleCalled
        /\ ~last.oracleOverLimit

\* C5 as stated: once the leaf at index i is the credential's IDCommitment, put
\* there by any insert operation (hashed with the limit or not), GenerateProof
\* within the limit succeeds and Verify of the proof with the same message
\* against the current root, the tree unchanged, is true with no error.
C5_AcceptedAfterAnyInsert ==
    /\ last.op = "GenerateProof" /\ last.inserted /\ ~last.overLimit => last.err = ""
    /\ last.op = "Verify" /\ Held(last.slot).inserted /\ WithinLimit(last.slot)
           /\ last.sameData /\ last.onlyCurrent /\ Held(last.slot).root = CurrentRoot
        => last.res /\ last.err = ""

\* C5 amended: once the leaf at index i is the credential's rate commitment
\* Poseidon(IDCommitment, UserMessageLimit), as InsertMember stores it,
\* GenerateProof within the limit succeeds and Verify of the proof with the
\* same message against the current root, the tree unchanged, is true with no
\* error.
C5_AcceptedAfterInsertMember ==
    /\ last.op = "GenerateProof" /\ last.member /\ ~last.overLimit => last.err = ""
    /\ last.op = "Verify" /\ Held(last.slot).member /\ WithinLimit(last.slot)
           /\ last.sameData /\ last.onlyCurrent /\ Held(last.slot).root = CurrentRoot
        => last.res /\ last.err = ""

\* A proof made at slot 1, after InsertMember put the prover there behind
\* another leaf, was verified against the current root and accepted.
C5_Witness ==
    /\ last.op = "Verify"
    /\ Held(last.slot).member
    /\ Held(last.slot).index = 1
    /\ WithinLimit(last.slot)
    /\ last.sameData
    /\ last.onlyCurrent
    /\ Held(last.slot).root = CurrentRoot
    /\ LeafAt(0) # ZeroWord
    /\ last.res

\* C6: for a valid proof made while the root was R, Verify with the same
\* message returns no error, true when no roots are given whatever happened to
\* the tree since, and with roots given true exactly when R is among them.
C6_RootWindow ==
    last.op = "Verify" /\ Held(last.slot).member /\ WithinLimit(last.slot) /\ last.sameData
        => /\ last.err = ""
           /\ last.res = (last.noRoots \/ last.hasRoot)

\* The tree changed after the proof was made, and Verify against the new
\* root alone refused the proof.
C6_Witness ==
    /\ last.op = "Verify"
    /\ Held(last.slot).member
    /\ WithinLimit(last.slot)
    /\ last.sameData
    /\ last.onlyCurrent
    /\ Held(last.slot).root # CurrentRoot
    /\ ~last.res
    /\ last.err = ""

\* C7: GenerateProof within the limit at a slot of the tree whose leaf is not
\* the prover's own succeeds, and Verify of such a proof against the current
\* root, the tree unchanged, is false with no error.
C7_WrongMembership ==
    /\ last.op = "GenerateProof" /\ last.inRange /\ ~last.member /\ ~last.overLimit
        => last.err = ""
    /\ last.op = "Verify" /\ ~Held(last.slot).member /\ last.onlyCurrent
           /\ Held(last.slot).root = CurrentRoot
        => ~last.res /\ last.err = ""

\* A proof made at the slot of another member was refused against the current
\* root.
C7_Witness ==
    /\ last.op = "Verify"
    /\ ~Held(last.slot).member
    /\ WithinLimit(last.slot)
    /\ LeafAt(Held(last.slot).index) \in {RateCommitment(k) : k \in CredIds \ {Prover}}
    /\ last.sameData
    /\ last.onlyCurrent
    /\ Held(last.slot).root = CurrentRoot
    /\ ~last.res
    /\ last.err = ""

\* C8: two proofs of one credential in one epoch with different messageIds,
\* both below the limit, have the same ExternalNullifier, and RecoverIDSecret
\* of them returns the credential's IDSecretHash with no error.
C8_SecretRecovered ==
    last.op = "RecoverIDSecret"
        /\ Held(last.first).cred = Held(last.second).cred
        /\ Held(last.first).epoch = Held(last.second).epoch
        /\ Held(last.first).messageId # Held(last.second).messageId
        /\ WithinLimit(last.first) /\ WithinLimit(last.second)
        => /\ Held(last.first).proof.ExternalNullifier
                = Held(last.second).proof.ExternalNullifier
           /\ last.err = ""
           /\ last.out = IDSecretHashOf(Held(last.first).cred)

\* The secret was recovered from two proofs of different messages.
C8_Witness ==
    /\ last.op = "RecoverIDSecret"
    /\ Held(last.first).cred = Held(last.second).cred
    /\ Held(last.first).epoch = Held(last.second).epoch
    /\ Held(last.first).messageId # Held(last.second).messageId
    /\ Held(last.first).data # Held(last.second).data
    /\ WithinLimit(last.first) /\ WithinLimit(last.second)
    /\ last.out = IDSecretHashOf(Held(last.first).cred)

(***************************************************************************)
(* Claims about the wire codec.                                            *)
(***************************************************************************)
\* b is [n:8 LE][n * 32 bytes][n:8 LE][n bytes] for the number n.
ExactForm(b, n) ==
    /\ Len(b) = 16 + 33 * n
    /\ \A j \in 1 .. 8 :
          /\ b[j] = (IF j = 1 THEN n % 256 ELSE IF j = 2 THEN n \div 256 ELSE 0)
          /\ b[8 + 32 * n + j] = b[j]

\* C9: MerkleProof.deserialize returns nil only for a byte string of the exact
\* form [n:8 LE][n*32 bytes][n:8 LE][n bytes], and then has decoded n path
\* elements and n path indexes and consumed every byte; for every other byte
\* string (the counts differ, or the length is not 16 + 33*n) it returns an
\* error.
C9_DeserializeExactForm ==
    last.op = "MerkleProof.deserialize" =>
        IF \E n \in 0 .. Len(last.b) : ExactForm(last.b, n)
        THEN /\ last.r.err = ""
             /\ ~last.r.panic
             /\ \E n \in 0 .. Len(last.b) :
                   /\ ExactForm(last.b, n)
                   /\ Len(last.r.PathElements) = n
                   /\ Len(last.r.PathIndexes) = n
             /\ last.r.offset = Len(last.b)
        ELSE last.r.err # "" /\ ~last.r.panic

\* C10: a 288-byte output b of the oracle is decoded into Proof = b[0:128],
\* MerkleRoot = b[128:160], ExternalNullifier = b[160:192], ShareX =
\* b[192:224], ShareY = b[224:256], Nullifier = b[256:288]; serialize of the
\* result is b again, and serializeWithData(data) is serialize followed by the
\* length of data in 8 little-endian bytes and by data.
C10_ProofLayoutRoundTrip ==
    last.op = "RateLimitProof.serialize" =>
        /\ Len(last.b) = 288
        /\ last.proof.Proof = [j \in 1 .. 128 |-> last.b[j]]
        /\ last.proof.MerkleRoot = [j \in 1 .. 32 |-> last.b[128 + j]]
        /\ last.proof.ExternalNullifier = [j \in 1 .. 32 |-> last.b[160 + j]]
        /\ last.proof.ShareX = [j \in 1 .. 32 |-> last.b[192 + j]]
        /\ last.proof.ShareY = [j \in 1 .. 32 |-> last.b[224 + j]]
        /\ last.proof.Nullifier = [j \in 1 .. 32 |-> last.b[256 + j]]
        /\ last.out = last.b
        /\ Len(last.outWithData) = 288 + 8 + Len(last.data)
        /\ \A j \in 1 .. 288 : last.outWithData[j] = last.out[j]
        /\ last.outWithData[289] = Len(last.data) % 256
        /\ last.outWithData[290] = Len(last.data) \div 256
        /\ \A j \in 291 .. 296 : last.outWithData[j] = 0
        /\ \A j \in 1 .. Len(last.data) : last.outWithData[296 + j] = last.data[j]

\* A proof was decoded and written back with a message longer than 255 bytes.
C10_Witness ==
    /\ last.op = "RateLimitProof.serialize"
    /\ Len(last.data) > 255
    /\ last.out = last.b
    /\ last.b[1] # last.b[129]

\* The bytes of out from offset lo (counted from 0) on are those of field.
FieldAt(out, lo, field) == \A j \in 1 .. Len(field) : out[lo + j] = field[j]

\* The little-endian digits of a number below 2^24, in width bytes.
LowBytes(k, width) ==
    [j \in 1 .. width |->
        IF j = 1 THEN k % 256 ELSE IF j = 2 THEN (k \div 256) % 256
        ELSE IF j = 3 THEN (k \div 65536) % 256 ELSE 0]

\* C11: the witness is idSecretHash(32) | memberIndex(8 LE) | userMessageLimit
\* (32: the value in the low bytes, little-endian, the rest zero) | messageId
\* (32, the same) | externalNullifier(32) | len(msg)(8 LE) | msg, 144 + len(msg)
\* bytes long; calls with different arguments give different byte strings; and
\* the externalNullifier GenerateProof puts in it is Poseidon(epoch,
\* RLN_IDENTIFIER).
C11_WitnessLayout ==
    /\ last.op = "serialize" =>
          /\ Len(last.out) = 144 + Len(last.w.msg)
          /\ FieldAt(last.out, 0, last.w.idKey)
          /\ FieldAt(last.out, 32, LowBytes(last.w.memIndex, 8))
          /\ FieldAt(last.out, 40, LowBytes(last.w.userMessageLimit, 32))
          /\ FieldAt(last.out, 72, LowBytes(last.w.messageId, 32))
          /\ FieldAt(last.out, 104, last.w.externalNullifier)
          /\ FieldAt(last.out, 136, LowBytes(Len(last.w.msg), 8))
          /\ FieldAt(last.out, 144, last.w.msg)
          /\ \A v \in WitnessInputs :
                v # last.w =>
                    serialize(v.idKey, v.memIndex, v.userMessageLimit, v.messageId,
                              v.externalNullifier, v.msg) # last.out
    /\ last.op = "GenerateProof.witness" /\ last.input # <<>> =>
          /\ last.input[1] = IDSecretHashOf(last.cred)
          /\ last.input[2] = Atom(last.index)
          /\ last.input[3] = Atom(UserMessageLimitOf(last.cred))
          /\ last.input[4] = Atom(last.messageId)
          /\ last.input[5] = PoseidonFr(<<last.epoch, RLN_IDENTIFIER>>)
          /\ SubSeq(last.input, 6, Len(last.input)) = <<Atom(Len(last.data))>> \o last.data

\* A witness with a message longer than 255 bytes, an index and a messageId
\* above 255 and a limit above 65535 was serialized.
C11_Witness ==
    /\ last.op = "serialize"
    /\ Len(last.w.msg) > 255
    /\ last.w.memIndex > 255
    /\ last.w.messageId > 255
    /\ last.w.userMessageLimit > 65535
    /\ Len(last.out) = 144 + Len(last.w.msg)

(***************************************************************************)
(* Claims about credential generation.                                     *)
(***************************************************************************)
KeyGenOps == {"MembershipKeyGen", "SeededMembershipKeyGen"}

\* C12: MembershipKeyGen and SeededMembershipKeyGen with two or more limits
\* return an error and a nil credential and do not call the oracle; with no
\* limit a credential they return has UserMessageLimit 10, and with one limit
\* it has that limit.
C12_LimitParameter ==
    last.op \in KeyGenOps =>
        /\ Len(last.params) >= 2 => last.err # "" /\ last.key.nil /\ ~last.oracleCalled
        /\ Len(last.params) < 2 => last.oracleCalled
        /\ Len(last.params) = 0 /\ last.err = ""
              => ~last.key.nil /\ last.key.UserMessageLimit = 10
        /\ Len(last.params) = 1 /\ last.err = ""
              => ~last.key.nil /\ last.key.UserMessageLimit = last.params[1]

\* SeededMembershipKeyGen was refused for three limits.
C12_Witness ==
    /\ last.op = "SeededMembershipKeyGen"
    /\ Len(last.params) = 3
    /\ last.err # ""
    /\ ~last.oracleCalled

\* C13: whatever the oracle's key generation returns, MembershipKeyGen and
\* SeededMembershipKeyGen return an error or a credential none of whose
\* IDTrapdoor, IDNullifier, IDSecretHash and IDCommitment is all zeros.
C13_NoZeroField ==
    last.op \in KeyGenOps /\ last.err = "" =>
        /\ ~last.key.nil
        /\ last.key.IDTrapdoor # Zero32
        /\ last.key.IDNullifier # Zero32
        /\ last.key.IDSecretHash # Zero32
        /\ last.key.IDCommitment # Zero32

\* The size of the oracle's output that a call expects.
ExpectedSize(call) == IF call = "GenerateProof" THEN 288 ELSE 32

\* C14: Sha256, Poseidon, RecoverIDSecret, GetMerkleRoot, GetLeaf,
\* GenerateProof and MembershipKeyGen return an error whenever the oracle
\* returned an error or an output that is not of the expected size (32 bytes;
\* 288 for proofs; 128 for keys).
C14_OracleFailureSurfaced ==
    /\ last.op = "ValueFromOracle"
          /\ (last.o.err # "" \/ Len(last.o.out) # ExpectedSize(last.call))
          => last.r.err # ""
    /\ last.op \in KeyGenOps /\ last.oracleCalled
          /\ (last.generated.nil \/ Len(last.generated.bytes) # 128)
          => last.err # ""

\* C15: GenerateRLNProofWithWitness returns a nil proof and the error "not
\* implemented" for every witness, and hands nothing to the oracle;
\* RLNWitnessInput.deserialize returns an error for every input and leaves the
\* receiver as it was.
C15_WitnessPathUnsupported ==
    /\ last.op = "GenerateRLNProofWithWitness" =>
          /\ last.proof.nil
          /\ last.err = "not implemented"
          /\ last.input = <<>>
    /\ last.op = "RLNWitnessInput.deserialize" =>
          /\ last.err # ""
          /\ last.after = last.before

\* The serialization of one witness was given to another to deserialize.
C15_Witness ==
    /\ last.op = "RLNWitnessInput.deserialize"
    /\ last.b # <<>>
    /\ last.b # RLNWitnessInput_serialize(last.before)
    /\ Len(last.before.MerkleProof.PathElements) > 0
    /\ last.err # ""

SiblingSlot(i) == IF i % 2 = 0 THEN i + 1 ELSE i - 1

\* C17: in every state of a tree of depth D, GetMerkleProof of a slot of the
\* tree, whether occupied, deleted or never written, succeeds with D path
\* elements and D index bits, and the first path element is the leaf stored
\* at the slot's sibling (all zero when the sibling is empty).
C17_ProofShape ==
    last.op = "GetMerkleProof" /\ last.index < Capacity(leaves) =>
        /\ last.err = ""
        /\ ~last.mixed
        /\ Len(last.out.PathElements) = TreeDepth(leaves)
        /\ Len(last.out.PathIndexes) = TreeDepth(leaves)
        /\ last.out.PathElements[1] = WordToBytes(leaves[SiblingSlot(last.index) + 1])

\* The proof of a never written slot beyond the inserted leaves whose sibling
\* is occupied, in the deepest tree.
C17_Witness ==
    /\ last.op = "GetMerkleProof"
    /\ TreeDepth(leaves) = MaxTreeDepth
    /\ last.index < Capacity(leaves)
    /\ last.index >= nextIndex
    /\ leaves[last.index + 1] = ZeroWord
    /\ leaves[SiblingSlot(last.index) + 1] # ZeroWord
    /\ last.err = ""
    /\ last.out.PathElements[1] # Zero32

ProofOps == {"GenerateProof", "Verify", "RecoverIDSecret", "Sha256", "Poseidon"}

\* C18: a step of GenerateProof, Verify, RecoverIDSecret, Sha256 or Poseidon,
\* whether it succeeds or fails, leaves every leaf, the root and LeavesSet
\* as they were, so that GetMerkleRoot and GetLeaf answer after it as before
\* it and the Merkle path of every slot is the same.
C18_ProofCallsLeaveTree ==
    [][last'.op \in ProofOps =>
          /\ leaves' = leaves
          /\ LeavesSet(nextIndex') = LeavesSet(nextIndex)
          /\ GetMerkleRoot(leaves') = GetMerkleRoot(leaves)
          /\ \A i \in Indices(leaves) : GetLeaf(leaves', i) = GetLeaf(leaves, i)
          /\ \A i \in Slots :
                /\ PathElementsFrom(leaves', 0, i) = PathElementsFrom(leaves, 0, i)
                /\ PathIndexesFrom(leaves', 0, i) = PathIndexesFrom(leaves, 0, i)]_vars

\* A proof call has failed on a tree that holds a member.
C18_Witness ==
    /\ last.op \in ProofOps
    /\ last.err # ""
    /\ nextIndex > 0
    /\ \E i \in Slots : leaves[i + 1] # ZeroWord

\* C19: MerkleProof.deserialize ends, for every byte string and every count
\* in its first 8 bytes, by returning nil or an error, never by a crash or an
\* allocation of count elements, and returns nil only when the length of the
\* byte string is 16 + 33 * count, computed without wraparound.
C19_DeserializeHardFail ==
    last.op = "MerkleProof.deserialize" =>
        /\ ~last.r.panic
        /\ last.r.err = "" =>
              /\ Len(last.b) >= 8
              /\ IsSmallUint64(Slice(last.b, 0, 8))
              /\ Len(last.b) = 16 + 33 * SmallUint64(Slice(last.b, 0, 8))

SingleStepOps == {"InsertMember", "InsertMemberAt", "DeleteMember", "AddAll"}

\* C20: a call of InsertMember, InsertMemberAt, DeleteMember or AddAll that
\* returns an error leaves every leaf, the root and LeavesSet as they were
\* before the call; an AddAll that fails on a later member of its list has
\* inserted none of the members before it.
C20_SingleStepOnError ==
    [][last'.op \in SingleStepOps /\ last'.err # "" =>
          /\ leaves' = leaves
          /\ GetMerkleRoot(leaves') = GetMerkleRoot(leaves)
          /\ LeavesSet(nextIndex') = LeavesSet(nextIndex)]_vars

\* C21: for every n >= 1, when CreateMembershipList(n) returns a list and a
\* root, the root CalcMerkleRoot returns for the list's identity commitments,
\* in order, is that root.
C21_StaticHelpersAgree ==
    last.op = "CalcMerkleRoot" /\ last.err = "" => last.root = last.created

====
